---------------------------- MODULE Spec2Model ----------------------------
(***************************************************************************)
(* Evidence Retrieval & Adaptive Refresh Engine of MedFusion-AI.           *)
(*                                                                         *)
(* The model follows Backend/RAG/retriever.py (PubMedRetriever and its     *)
(* module-level API) and Backend/RAG/build_index.py (the build step).      *)
(*                                                                         *)
(* Abstractions                                                            *)
(*  - A text is a sequence of phrases (strings).  str.lower() is the       *)
(*    phrase-wise map Lower, and `k in txt` is "some lower-cased phrase    *)
(*    equals k".                                                           *)
(*  - An embedding vector is identified by the text it was computed from   *)
(*    (the embedder is a deterministic function of the text).              *)
(*  - A distance is an integer number of hundredths (0.35 is 35).          *)
(*  - The external literature service is a fixed small world (IdsFor,      *)
(*    ArticleChunks) whose calls may fail.                                 *)
(*  - chunks.jsonl is a sequence of lines; a line is a whole record, a     *)
(*    torn fragment left by a process stop during a flush, or a fragment   *)
(*    merged with the record that was appended right behind it.            *)
(***************************************************************************)
EXTENDS Integers, Sequences, FiniteSets, TLC

(***************************************************************************)
(* Bounds of the model                                                     *)
(***************************************************************************)
\* Longest in-memory index a retrieve call may still grow.
MaxLen == 9

\* Longest text, in characters, given to chunk_text.
MaxChars == 9
\* Largest max_tokens given to chunk_text.
MaxBudget == 2

(***************************************************************************)
(* Program constants                                                       *)
(***************************************************************************)
\* retriever.py:94  threshold=0.35, in hundredths
Threshold == 35
\* retriever.py:103  max_results=3
MaxResults == 3
\* build_index.py:36  max_results=150
BuildMaxResults == 150
\* retriever.py:160-162  [:2]
BucketCap == 2
\* retriever.py:135  top_k: int = 6
DefaultTopK == 6

(***************************************************************************)
(* The world: queries, documents, texts, distances                         *)
(***************************************************************************)
Q1 == "What is Asthma?"
Q2 == "asthma trial"
Queries == {Q1, Q2}
Q3 == "DEFINE wheeze"
Q4 == "Dose of salbutamol"
\* The questions answer_pubmed_question is called with.
Questions == {Q1, Q2, Q3}
TopKs == {2, DefaultTopK}
BuildTerms == {"asthma"}

T_DEF  == <<"Asthma", "is a", "chronic disease", "defined as", "airway inflammation">>
T_MECH == <<"The", "pathophysiology", "of asthma involves bronchoconstriction">>
T_RES  == <<"A 2021 trial evaluated asthma treatment outcomes">>
U1 == <<"Asthma", "Refers To", "reversible airflow obstruction">>
U2 == <<"Mechanism", "of airway remodelling">>
U3 == <<"Cohort study of inhaled steroids">>
U4 == <<"Asthma in athletes">>

\* str.lower() on a phrase.
Lower(s) ==
    CASE s = "Asthma" -> "asthma"
      [] s = "The" -> "the"
      [] s = "Refers To" -> "refers to"
      [] s = "Mechanism" -> "mechanism"
      [] s = "A 2021 trial evaluated asthma treatment outcomes"
             -> "a 2021 trial evaluated asthma treatment outcomes"
      [] s = "Cohort study of inhaled steroids" -> "cohort study of inhaled steroids"
      [] s = "Asthma in athletes" -> "asthma in athletes"
      [] s = "What is Asthma?" -> "what is asthma?"
      [] s = "What is" -> "what is"
      [] s = "Asthma?" -> "asthma?"
      [] s = "DEFINE" -> "define"
      [] s = "DEFINE wheeze" -> "define wheeze"
      [] s = "Dose of" -> "dose of"
      [] OTHER -> s

\* The ranked identifiers the literature search holds for a term.
IdsFor(term) ==
    CASE term = "asthma" -> <<"p1", "p2">>
      [] term = Q1 -> <<"p3", "p4", "p5", "p6">>
      [] OTHER -> <<>>

\* chunk_text(clean_text(title + ". " + abstract)) of each document.
ArticleChunks(pmid) ==
    CASE pmid = "p1" -> <<T_DEF, T_MECH>>
      [] pmid = "p2" -> <<T_RES>>
      [] pmid = "p3" -> <<U1>>
      [] pmid = "p4" -> <<U2>>
      [] pmid = "p5" -> <<U3>>
      [] pmid = "p6" -> <<U4>>
      [] OTHER -> <<>>

\* Squared L2 distance between the embeddings of a query and of a text.
DistText(q, t) ==
    CASE q = Q1 /\ t = T_DEF  -> 120
      [] q = Q1 /\ t = T_MECH -> 130
      [] q = Q1 /\ t = T_RES  -> 140
      [] q = Q1 /\ t = U1 -> 20
      [] q = Q1 /\ t = U2 -> 40
      [] q = Q1 /\ t = U3 -> 150
      [] q = Q2 /\ t = T_DEF  -> 70
      [] q = Q2 /\ t = T_MECH -> 75
      [] q = Q2 /\ t = T_RES  -> 50
      [] q = Q2 /\ t = U1 -> 60
      [] q = Q2 /\ t = U2 -> 65
      [] q = Q2 /\ t = U3 -> 70
      [] OTHER -> 190

(***************************************************************************)
(* Sequence helpers                                                        *)
(***************************************************************************)
Min(a, b) == IF a <= b THEN a ELSE b

Take(s, n) == SubSeq(s, 1, Min(n, Len(s)))

LastN(s, n) == SubSeq(s, Len(s) - n + 1, Len(s))

RECURSIVE SumSeq(_)
SumSeq(s) == IF s = <<>> THEN 0 ELSE Head(s) + SumSeq(Tail(s))

RECURSIVE Flatten(_)
Flatten(ss) == IF ss = <<>> THEN <<>> ELSE Head(ss) \o Flatten(Tail(ss))

(***************************************************************************)
(* Records, vectors, lines of chunks.jsonl                                 *)
(***************************************************************************)
\* build_index.py:62  rec = {"pmid": pmid, "chunk_id": i, "text": c}
BuildRecord(pmid, i, t) == [pmid |-> pmid, chunk_id |-> i, text |-> t]

\* retriever.py:111-114  {"pmid": pmid, "text": ch}
RefreshRecord(pmid, t) == [pmid |-> pmid, text |-> t]

\* self._model.encode([...]): one vector per text, in input order.
Embed(t) == [emb |-> t]

\* A faulty variant of VectorsToAdd: the batch is embedded in reverse order.
VectorsToAddReversed(recs) ==
    [j \in 1..Len(recs) |-> Embed(recs[Len(recs) + 1 - j].text)]

\* retriever.py:119-122  vecs = encode([r["text"] for r in new_records])
VectorsToAdd(recs) == [j \in 1..Len(recs) |-> Embed(recs[j].text)]

\* A line of chunks.jsonl.  "rec": json.dumps(r) + "\n".  "torn": the first
\* bytes of json.dumps(r), no line end.  "merged": a torn fragment followed
\* by json.dumps(r) + "\n" on the same line.
RecLine(r) == [kind |-> "rec", rec |-> r]
TornLine(r) == [kind |-> "torn", rec |-> r]
MergedLine(r) == [kind |-> "merged", rec |-> r]

\* open(CHUNKS_PATH, "a") followed by the writes of `lines`: the bytes go
\* right behind the last byte of the file, so behind a torn fragment the
\* first record lands on the fragment's line.
AppendLines(file, recs) ==
    IF recs = <<>> THEN file
    ELSE IF file # <<>> /\ file[Len(file)].kind = "torn"
         THEN SubSeq(file, 1, Len(file) - 1)
                \o <<MergedLine(recs[1])>>
                \o [j \in 1..(Len(recs) - 1) |-> RecLine(recs[j + 1])]
         ELSE file \o [j \in 1..Len(recs) |-> RecLine(recs[j])]

\* retriever.py:65-70  json.loads per line, a failing line is skipped.
ParseLines(file) ==
    LET good == SelectSeq(file, LAMBDA l : l.kind = "rec")
    IN  [j \in 1..Len(good) |-> good[j].rec]

(***************************************************************************)
(* Search                                                                  *)
(***************************************************************************)
Dist(q, v) == DistText(q, v.emb)

\* IndexFlatL2.search: positions by ascending distance, ties by position.
RECURSIVE RankFrom(_, _, _)
RankFrom(S, ix, q) ==
    IF S = {} THEN <<>>
    ELSE LET p == CHOOSE p \in S : \A r \in S :
                     \/ Dist(q, ix[p]) < Dist(q, ix[r])
                     \/ Dist(q, ix[p]) = Dist(q, ix[r]) /\ p <= r
         IN  <<p>> \o RankFrom(S \ {p}, ix, q)

\* A faulty variant of Labels: the labels come in index order, not by
\* distance.
LabelsByPosition(ix, q, k) == [j \in 1..k |-> IF j <= Len(ix) THEN j ELSE 0]

\* The label row I[0]: top_k labels, padded with -1 (here 0) when the index
\* holds fewer than top_k vectors.
Labels(ix, q, k) ==
    LET order == RankFrom(1..Len(ix), ix, q)
    IN  [j \in 1..k |-> IF j <= Len(order) THEN order[j] ELSE 0]

\* A faulty variant of SearchResults: the test of line 87 is
\* `idx < len(self._chunks)` alone, so a padding label -1 passes and reads
\* the last record of a non-empty store, at the distance of a padding entry.
SearchResultsNoLowerBound(ix, ch, q, k) ==
    LET hits == SelectSeq(Labels(ix, q, k), LAMBDA p : p <= Len(ch) /\ ch # <<>>)
    IN  [j \in 1..Len(hits) |->
            IF hits[j] = 0
            THEN [rec |-> ch[Len(ch)], dist |-> 1000]
            ELSE [rec |-> ch[hits[j]], dist |-> Dist(q, ix[hits[j]])]]

\* retriever.py:81-89  _search: labels inside the store, with their distance.
SearchResults(ix, ch, q, k) ==
    LET hits == SelectSeq(Labels(ix, q, k), LAMBDA p : 1 <= p /\ p <= Len(ch))
    IN  [j \in 1..Len(hits) |->
            [rec |-> ch[hits[j]], dist |-> Dist(q, ix[hits[j]])]]

(***************************************************************************)
(* Evidence quality                                                        *)
(***************************************************************************)
\* A faulty variant of NeedsRefresh: the comparison is <= instead of <.
NeedsRefreshAtThreshold(results) ==
    IF results = <<>> THEN TRUE
    ELSE LET sims == [j \in 1..Len(results) |-> 100 - results[j].dist]
         IN  SumSeq(sims) <= Threshold * Len(sims)

\* retriever.py:94-98  _needs_refresh.  sum(sims) / len(sims) < threshold,
\* with both sides multiplied by len(sims) > 0.
NeedsRefresh(results) ==
    IF results = <<>> THEN TRUE
    ELSE LET sims == [j \in 1..Len(results) |-> 100 - results[j].dist]
         IN  SumSeq(sims) < Threshold * Len(sims)

\* A faulty variant of RetryAfterRefresh: `while` in place of `if`.
RetryWhileWeak(results) == NeedsRefresh(results)

\* retriever.py:138-140  `if self._needs_refresh(results):` runs its body
\* once; the results of the second search are not tested again.
RetryAfterRefresh(results) == FALSE

\* A faulty variant of FetchRequest: the query is lower-cased before the
\* search.
FetchRequestLowered(query) == [term |-> Lower(query), max |-> MaxResults]

\* retriever.py:103-104,139  fetch_pubmed_ids(query, max_results) with the
\* default max_results.
FetchRequest(query) == [term |-> query, max |-> MaxResults]

\* pubmed_fetch.py:12-25  esearch with retmax: the first `max` identifiers.
FetchIds(req) == Take(IdsFor(req.term), req.max)

(***************************************************************************)
(* Categorization                                                          *)
(***************************************************************************)
DefinitionMarkers == {"is a", "refers to", "defined as"}
MechanismMarkers == {"pathophysiology", "mechanism", "airway inflammation"}

\* any(k in txt for k in markers), txt = rec["text"].lower()
HasMarker(text, markers) == \E j \in DOMAIN text : Lower(text[j]) \in markers

\* A faulty variant of Category: the mechanism markers are tested first.
CategoryMechanismFirst(rec) ==
    IF HasMarker(rec.text, MechanismMarkers) THEN "mechanism_support"
    ELSE IF HasMarker(rec.text, DefinitionMarkers) THEN "definition_support"
    ELSE "research_support"

\* retriever.py:147-157
Category(rec) ==
    IF HasMarker(rec.text, DefinitionMarkers) THEN "definition_support"
    ELSE IF HasMarker(rec.text, MechanismMarkers) THEN "mechanism_support"
    ELSE "research_support"

\* A faulty variant of Buckets: the mechanism test is an `if` of its own, not
\* an `elif`.
BucketsIndependent(results) ==
    LET recs == [j \in 1..Len(results) |-> results[j].rec]
        def(r) == HasMarker(r.text, DefinitionMarkers)
        mech(r) == HasMarker(r.text, MechanismMarkers)
    IN  [definition_support |-> Take(SelectSeq(recs, def), BucketCap),
         mechanism_support |-> Take(SelectSeq(recs, mech), BucketCap),
         research_support |->
             Take(SelectSeq(recs, LAMBDA r : ~def(r) /\ ~mech(r)), BucketCap)]

\* A faulty variant of Buckets: the results are cut to the cap before they
\* are categorized.
BucketsTruncatedFirst(results) ==
    LET recs == [j \in 1..Min(BucketCap, Len(results)) |-> results[j].rec]
        of(b) == SelectSeq(recs, LAMBDA r : Category(r) = b)
    IN  [definition_support |-> of("definition_support"),
         mechanism_support |-> of("mechanism_support"),
         research_support |-> of("research_support")]

\* retriever.py:143-163
Buckets(results) ==
    LET recs == [j \in 1..Len(results) |-> results[j].rec]
        of(b) == SelectSeq(recs, LAMBDA r : Category(r) = b)
    IN  [definition_support |-> Take(of("definition_support"), BucketCap),
         mechanism_support |-> Take(of("mechanism_support"), BucketCap),
         research_support |-> Take(of("research_support"), BucketCap)]

BucketNames == {"definition_support", "mechanism_support", "research_support"}

NoBuckets ==
    [definition_support |-> <<>>, mechanism_support |-> <<>>,
     research_support |-> <<>>]

(***************************************************************************)
(* Query intent                                                            *)
(***************************************************************************)
\* The phrases of a question, in order.
Phrases(question) ==
    CASE question = Q1 -> <<"What is", "Asthma?">>
      [] question = Q2 -> <<"asthma", "trial">>
      [] question = Q3 -> <<"DEFINE", "wheeze">>
      [] question = Q4 -> <<"Dose of", "salbutamol">>
      [] OTHER -> <<question>>

\* retriever.py:34-40
DefinitionKeywords == {"what is", "define", "definition", "meaning of", "explain"}

\* A faulty variant of is_definition_query: the question is not lower-cased.
is_definition_query_cased(question) ==
    \E j \in DOMAIN Phrases(question) : Phrases(question)[j] \in DefinitionKeywords

\* retriever.py:33-42  any(k in question.lower() for k in keywords)
is_definition_query(question) ==
    \E j \in DOMAIN Phrases(question) :
        Lower(Phrases(question)[j]) \in DefinitionKeywords

(***************************************************************************)
(* Cleaning and chunking (pubmed_fetch.py)                                 *)
(*                                                                         *)
(* Here a string is a sequence of characters.  "a" stands for a letter,    *)
(* "." for a sentence terminator, " " for a space.                         *)
(***************************************************************************)
Chars == {"a", ".", " "}

\* pubmed_fetch.py:59  the class [.!?] of the lookbehind.
Terminators == {".", "!", "?"}

\* The strings of at most n characters.
Strings(n) == UNION {[1..m -> Chars] : m \in 0..n}

\* pubmed_fetch.py:53-56  what clean_text returns: whitespace is collapsed to
\* single spaces and stripped from both ends.
IsClean(s) ==
    /\ s # <<>> => s[1] # " " /\ s[Len(s)] # " "
    /\ \A j \in 1..(Len(s) - 1) : ~(s[j] = " " /\ s[j + 1] = " ")

\* len(s.split()): the maximal runs of characters other than whitespace.
WordCount(s) ==
    Cardinality({j \in 1..Len(s) : s[j] # " " /\ (j = 1 \/ s[j - 1] = " ")})

\* s.strip()
Strip(s) ==
    LET ink == {j \in 1..Len(s) : s[j] # " "}
    IN  IF ink = {} THEN <<>>
        ELSE SubSeq(s, CHOOSE j \in ink : \A m \in ink : j <= m,
                       CHOOSE j \in ink : \A m \in ink : m <= j)

\* pubmed_fetch.py:59  re.split(r"(?<=[.!?]) +", s): s is cut at every run
\* of spaces that stands right behind a terminator, and the run is dropped.
RECURSIVE SplitSentences(_)
SplitSentences(s) ==
    LET cuts == {j \in 2..Len(s) : s[j] = " " /\ s[j - 1] \in Terminators}
    IN  IF cuts = {} THEN <<s>>
        ELSE LET b == CHOOSE j \in cuts : \A m \in cuts : j <= m
                 run == {e \in b..Len(s) : \A m \in b..e : s[m] = " "}
                 e == CHOOSE j \in run : \A m \in run : m <= j
             IN  <<SubSeq(s, 1, b - 1)>> \o SplitSentences(SubSeq(s, e + 1, Len(s)))

\* sep.join(parts)
RECURSIVE Join(_, _)
Join(parts, sep) ==
    IF parts = <<>> THEN <<>>
    ELSE IF Len(parts) = 1 THEN parts[1]
    ELSE parts[1] \o sep \o Join(Tail(parts), sep)

\* A faulty variant of Fits: the words already in the chunk are not counted.
FitsSentenceAlone(chunk, sentence, max_tokens) ==
    WordCount(sentence) <= max_tokens

\* pubmed_fetch.py:63
Fits(chunk, sentence, max_tokens) ==
    WordCount(chunk) + WordCount(sentence) <= max_tokens

(***************************************************************************)
(* State                                                                   *)
(***************************************************************************)
\* Instances of PubMedRetriever: 1 is the module-level _retriever
\* (retriever.py:169), 2 the one the text page constructs.
Insts == {1, 2}
\* Threads of control that may be inside retrieve().
Callers == {1, 2}

VARIABLES
    files,       \* the files of data/pubmed that exist
    idxFile,     \* index.faiss: the vectors, in order
    chunksFile,  \* chunks.jsonl: the lines, in order
    loaded,      \* the instances whose __init__ has completed
    loadErr,     \* per instance: what the last __init__ raised, or "none"
    index,       \* per instance: self._index, the vectors in order
    chunks,      \* per instance: self._chunks
    call,        \* per caller: the retrieve() call it is in, or was last in
    fresh,       \* history: the instances not touched since their load
    built,       \* history: the chunk records the last build wrote, -1 before
    pristine,    \* history: no refresh has written to the files since the build
    chunker,     \* a call of chunk_text: its arguments, locals and position
    conversation_history,  \* llama_client.conversation_history
    turns,       \* history: every turn appended so far, in order
    session      \* per session: the answer-generation call it is in

vars == <<files, idxFile, chunksFile, loaded, loadErr, index, chunks, call,
          fresh, built, pristine, chunker, conversation_history, turns,
          session>>

engine == <<files, idxFile, chunksFile, loaded, loadErr, index, chunks, call,
            fresh, built, pristine>>

disk == <<files, idxFile, chunksFile, built, pristine>>
llm == <<conversation_history, turns, session>>
memory == <<loaded, loadErr, index, chunks, fresh>>

IDX == "index.faiss"
CHK == "chunks.jsonl"

IdleCall ==
    [pc |-> "idle", inst |-> 0, query |-> "", topk |-> 0, results0 |-> <<>>,
     results |-> <<>>, refreshes |-> 0, fetchLog |-> <<>>, pmids |-> <<>>,
     newRecords |-> <<>>, written |-> 0, buckets |-> NoBuckets, err |-> "none",
     failedDoc |-> "", via |-> "", ixLen0 |-> 0, chLen0 |-> 0, lookups |-> 0,
     bookshelf |-> "None", answer |-> "none"]

\* No call of chunk_text is being followed.
NoChunker ==
    [pc |-> "idle", text |-> <<>>, max_tokens |-> 0, sentences |-> <<>>,
     chunk |-> <<>>, chunks |-> <<>>]

\* The browser sessions of the application; Streamlit runs the script of each
\* in a thread of its own, all of them in one process.
Sessions == {1, 2}

\* A session that is in no answer-generation call; `out` is how its last
\* call ended.
IdleSession == [pc |-> "idle", fn |-> "", question |-> "", answer |-> "",
                out |-> "none"]

\* llama_client.py:32  conversation_history = [] when the module is imported.
NoConversation ==
    /\ conversation_history = <<>>
    /\ turns = <<>>
    /\ session = [s \in Sessions |-> IdleSession]

\* A caller that is not inside retrieve().
Outside(c) ==
    \/ call[c].pc \in {"idle", "raised", "answered"}
    \/ call[c].pc = "returned" /\ call[c].via # "answer"

Init ==
    /\ files = {}
    /\ idxFile = <<>>
    /\ chunksFile = <<>>
    /\ loaded = {}
    /\ loadErr = [i \in Insts |-> "none"]
    /\ index = [i \in Insts |-> <<>>]
    /\ chunks = [i \in Insts |-> <<>>]
    /\ call = [c \in Callers |-> IdleCall]
    /\ fresh = {}
    /\ built = -1
    /\ pristine = TRUE
    /\ chunker = NoChunker
    /\ NoConversation

(***************************************************************************)
(* The build step                                                          *)
(***************************************************************************)
\* build_index.py:48-65  the chunk records of the documents whose fetch
\* succeeded, in the order of the identifiers.
BuildRecords(pmids, failed) ==
    Flatten([j \in 1..Len(pmids) |->
        IF pmids[j] \in failed THEN <<>>
        ELSE [m \in 1..Len(ArticleChunks(pmids[j])) |->
                 BuildRecord(pmids[j], m - 1, ArticleChunks(pmids[j])[m])]])

\* build_index.py:36-80  build_pubmed_index.  chunks.jsonl is opened with
\* "w" and written first; index.faiss is written only when there is at least
\* one chunk.  The build runs while no engine is loaded (spec section 3: the
\* pair is created by a build step, then mutated by refreshes).  `failed` are
\* the documents whose fetch raises (lines 49-53: skipped).  A failing
\* fetch_pubmed_ids (line 40) raises before a file is opened and changes
\* nothing.
Build(term, failed) ==
    /\ loaded = {}
    /\ LET pmids == Take(IdsFor(term), BuildMaxResults)
           recs == BuildRecords(pmids, failed)
       IN  /\ failed \subseteq {pmids[j] : j \in 1..Len(pmids)}
           /\ chunksFile' = [j \in 1..Len(recs) |-> RecLine(recs[j])]
           /\ built' = Len(recs)
           /\ pristine' = TRUE
           /\ IF recs = <<>>
              THEN /\ files' = files \cup {CHK}
                   /\ idxFile' = idxFile
              ELSE /\ files' = files \cup {CHK, IDX}
                   /\ idxFile' = [j \in 1..Len(recs) |-> Embed(recs[j].text)]
    /\ UNCHANGED <<llm, chunker, memory, call>>

(***************************************************************************)
(* Loading an engine                                                       *)
(***************************************************************************)
\* What __init__ raises: faiss.read_index on a missing file raises
\* RuntimeError, open() on a missing file FileNotFoundError.
LoadError ==
    IF IDX \notin files THEN "RuntimeError"
    ELSE IF CHK \notin files THEN "FileNotFoundError"
    ELSE "none"

\* retriever.py:60-70  PubMedRetriever.__init__
Load(i) ==
    /\ i \notin loaded
    /\ loadErr' = [loadErr EXCEPT ![i] = LoadError]
    /\ IF LoadError = "none"
       THEN /\ loaded' = loaded \cup {i}
            /\ index' = [index EXCEPT ![i] = idxFile]
            /\ chunks' = [chunks EXCEPT ![i] = ParseLines(chunksFile)]
            /\ fresh' = fresh \cup {i}
       ELSE UNCHANGED <<loaded, index, chunks, fresh>>
    /\ UNCHANGED <<llm, chunker, disk, call>>

\* retriever.py:75-76  is_ready, on an instance that exists.
IsReady(i) == i \in loaded /\ Len(chunks[i]) > 0

(***************************************************************************)
(* retrieve()                                                              *)
(***************************************************************************)
\* retriever.py:107-114  the records of the fetched documents.
BatchFor(pmids) ==
    Flatten([j \in 1..Len(pmids) |->
        [m \in 1..Len(ArticleChunks(pmids[j])) |->
            RefreshRecord(pmids[j], ArticleChunks(pmids[j])[m])]])

\* The vectors a call for `q` would add if it refreshed.
Growth(q) == Len(BatchFor(FetchIds(FetchRequest(q))))

\* The vectors the calls in flight on instance i may still add.
Pending(i) ==
    LET cs == {c \in Callers : call[c].inst = i
                 /\ call[c].pc \in {"fetch_ids", "fetch_articles", "add"}}
        RECURSIVE sum(_)
        sum(S) == IF S = {} THEN 0
                  ELSE LET c == CHOOSE c \in S : TRUE
                       IN  Growth(call[c].query) + sum(S \ {c})
    IN  sum(cs)

\* A variant of MayAppend: the append steps are taken under a lock.
MayAppendLocked(c) ==
    \A d \in Callers \ {c} :
        ~(call[d].inst = call[c].inst
          /\ call[d].pc \in {"write_index", "open_chunks", "append"})

\* retriever.py:119-130  nothing is acquired before the append steps.
MayAppend(c) == TRUE

\* retriever.py:140-163  the search after a refresh, then categorization.
AfterRefresh(c, ix, ch) ==
    LET res == SearchResults(ix, ch, call[c].query, call[c].topk)
    IN  IF RetryAfterRefresh(res)
        THEN [call[c] EXCEPT !.pc = "fetch_ids", !.results = res,
                             !.refreshes = @ + 1, !.written = 0]
        ELSE [call[c] EXCEPT !.pc = "returned", !.results = res,
                             !.buckets = Buckets(res)]

\* retriever.py:135-138, 143-163  the first search; without a refresh the
\* call categorizes and returns at once.
RetrieveFrom(c, i, q, k, via) ==
    /\ Outside(c)
    /\ i \in loaded
    /\ Len(index[i]) + Pending(i) + Growth(q) <= MaxLen
    /\ LET res == SearchResults(index[i], chunks[i], q, k)
           base == [IdleCall EXCEPT !.inst = i, !.query = q, !.topk = k,
                                    !.results0 = res, !.results = res,
                                    !.via = via,
                                    !.ixLen0 = Len(index[i]),
                                    !.chLen0 = Len(chunks[i])]
       IN  call' = [call EXCEPT ![c] =
                IF NeedsRefresh(res)
                THEN [base EXCEPT !.pc = "fetch_ids", !.refreshes = 1]
                ELSE [base EXCEPT !.pc = "returned", !.buckets = Buckets(res)]]
    /\ UNCHANGED <<llm, chunker, disk, memory>>

\* retriever.py:135  retriever.retrieve(query, top_k) called on instance i.
RetrieveStart(c, i, q, k) == RetrieveFrom(c, i, q, k, "retrieve")

\* retriever.py:104  fetch_pubmed_ids returns.
FetchIdsOk(c) ==
    /\ call[c].pc = "fetch_ids"
    /\ LET req == FetchRequest(call[c].query)
       IN  call' = [call EXCEPT ![c].pc = "fetch_articles",
                                ![c].fetchLog = Append(@, req),
                                ![c].pmids = FetchIds(req)]
    /\ UNCHANGED <<llm, chunker, disk, memory>>

\* retriever.py:104  fetch_pubmed_ids raises (requests, or the XML parser on
\* an error page); nothing in _fetch_and_store or retrieve catches it.
FetchIdsFail(c) ==
    /\ call[c].pc = "fetch_ids"
    /\ call' = [call EXCEPT ![c].pc = "raised",
                            ![c].fetchLog = Append(@, FetchRequest(call[c].query)),
                            ![c].err = "ConnectionError"]
    /\ UNCHANGED <<llm, chunker, disk, memory>>

\* A faulty variant of EmptyBatchReturns: the test of line 116 is missing.
EmptyBatchProceeds(recs) == FALSE

\* retriever.py:116-117  `if not new_records: return`
EmptyBatchReturns(recs) == recs = <<>>

\* A faulty variant of NewRecordsToStore: a document that has a record in
\* the store already is left out of the batch.
NewRecordsNotInStore(recs, store) ==
    SelectSeq(recs, LAMBDA r : \A p \in 1..Len(store) : store[p].pmid # r.pmid)

\* retriever.py:107-114  every chunk of every fetched document goes into
\* new_records; self._chunks is not read.
NewRecordsToStore(recs, store) == recs

\* retriever.py:107-117  every document is fetched; an empty batch returns
\* from _fetch_and_store at once.
FetchArticlesOk(c) ==
    /\ call[c].pc = "fetch_articles"
    /\ LET recs == NewRecordsToStore(BatchFor(call[c].pmids),
                                     chunks[call[c].inst])
           i == call[c].inst
       IN  call' = [call EXCEPT ![c] =
                IF EmptyBatchReturns(recs)
                THEN AfterRefresh(c, index[i], chunks[i])
                ELSE [call[c] EXCEPT !.pc = "add", !.newRecords = recs]]
    /\ UNCHANGED <<llm, chunker, disk, memory>>

\* retriever.py:107-108  fetch_pubmed_article raises for document j of the
\* loop; the loop has no try, so the call raises and the records collected
\* from the documents before j are dropped with the frame.
FetchArticleFail(c) ==
    /\ call[c].pc = "fetch_articles"
    /\ call[c].pmids # <<>>
    /\ \E j \in 1..Len(call[c].pmids) :
          call' = [call EXCEPT ![c].pc = "raised",
                               ![c].err = "ConnectionError",
                               ![c].failedDoc = call[c].pmids[j]]
    /\ UNCHANGED <<llm, chunker, disk, memory>>

\* A faulty variant of IndexAdd: the index is made anew from the batch.
IndexAddReplacing(c) ==
    /\ call[c].pc = "add"
    /\ MayAppend(c)
    /\ LET i == call[c].inst
       IN  /\ index' = [index EXCEPT ![i] = VectorsToAdd(call[c].newRecords)]
           /\ fresh' = fresh \ {i}
    /\ call' = [call EXCEPT ![c].pc = "write_index"]
    /\ UNCHANGED <<llm, chunker, disk, loaded, loadErr, chunks>>

\* retriever.py:119-124  encode, self._index.add(vecs)
IndexAdd(c) ==
    /\ call[c].pc = "add"
    /\ MayAppend(c)
    /\ LET i == call[c].inst
       IN  /\ index' = [index EXCEPT ![i] = @ \o VectorsToAdd(call[c].newRecords)]
           /\ fresh' = fresh \ {i}
    /\ call' = [call EXCEPT ![c].pc = "write_index"]
    /\ UNCHANGED <<llm, chunker, disk, loaded, loadErr, chunks>>

\* retriever.py:125  faiss.write_index(self._index, ...): the file becomes
\* the image of the whole in-memory index.
WriteIndexOk(c) ==
    /\ call[c].pc = "write_index"
    /\ idxFile' = index[call[c].inst]
    /\ files' = files \cup {IDX}
    /\ pristine' = FALSE
    /\ call' = [call EXCEPT ![c].pc = "open_chunks"]
    /\ UNCHANGED <<llm, chunker, chunksFile, built, memory>>

\* retriever.py:125  write_index raises (the file cannot be opened for
\* writing); the vectors added at line 124 stay in self._index.
WriteIndexFail(c) ==
    /\ call[c].pc = "write_index"
    /\ call' = [call EXCEPT ![c].pc = "raised", ![c].err = "OSError"]
    /\ UNCHANGED <<llm, chunker, disk, memory>>

\* retriever.py:127  open(CHUNKS_PATH, "a")
OpenChunksOk(c) ==
    /\ call[c].pc = "open_chunks"
    /\ call' = [call EXCEPT ![c].pc = "append"]
    /\ UNCHANGED <<llm, chunker, disk, memory>>

\* retriever.py:127  open raises.
OpenChunksFail(c) ==
    /\ call[c].pc = "open_chunks"
    /\ call' = [call EXCEPT ![c].pc = "raised", ![c].err = "OSError"]
    /\ UNCHANGED <<llm, chunker, disk, memory>>

\* retriever.py:128-130  one turn of the loop: the line goes to the file
\* object's buffer, the record to self._chunks.
AppendRecord(c) ==
    /\ call[c].pc = "append"
    /\ call[c].written < Len(call[c].newRecords)
    /\ chunks' = [chunks EXCEPT ![call[c].inst] =
                     Append(@, call[c].newRecords[call[c].written + 1])]
    /\ fresh' = fresh \ {call[c].inst}
    /\ call' = [call EXCEPT ![c].written = @ + 1]
    /\ UNCHANGED <<llm, chunker, disk, loaded, loadErr, index>>

\* retriever.py:127-130, 140-163  the with block ends: the buffer is flushed
\* and the file closed; _fetch_and_store returns, retrieve searches again,
\* categorizes and returns.
CloseChunksOk(c) ==
    /\ call[c].pc = "append"
    /\ call[c].written = Len(call[c].newRecords)
    /\ chunksFile' = AppendLines(chunksFile, call[c].newRecords)
    /\ files' = files \cup {CHK}
    /\ pristine' = FALSE
    /\ call' = [call EXCEPT ![c] =
                   AfterRefresh(c, index[call[c].inst], chunks[call[c].inst])]
    /\ UNCHANGED <<llm, chunker, idxFile, built, memory>>

\* retriever.py:127-130  the flush at the end of the with block raises
\* before a byte reaches the file; the records are in self._chunks already.
CloseChunksFail(c) ==
    /\ call[c].pc = "append"
    /\ call[c].written = Len(call[c].newRecords)
    /\ call' = [call EXCEPT ![c].pc = "raised", ![c].err = "OSError"]
    /\ UNCHANGED <<llm, chunker, disk, memory>>

(***************************************************************************)
(* answer_pubmed_question                                                  *)
(***************************************************************************)
\* retriever.py:172-181  the call on the module-level _retriever: the
\* message of line 179 when is_ready() is false, otherwise retrieve.
AnswerStart(c, q, k) ==
    IF IsReady(1)
    THEN RetrieveFrom(c, 1, q, k, "answer")
    ELSE /\ Outside(c)
         /\ 1 \in loaded
         /\ call' = [call EXCEPT ![c] =
                [IdleCall EXCEPT !.pc = "answered", !.inst = 1, !.query = q,
                                 !.topk = k, !.via = "answer",
                                 !.answer = "not_ready"]]
         /\ UNCHANGED <<llm, chunker, disk, memory>>

\* retrieve has returned to answer_pubmed_question.
AtLookupTest(c) == call[c].pc = "returned" /\ call[c].via = "answer"

\* retriever.py:184-201  no definition question: no lookup, the evidence is
\* returned with bookshelf None.
AnswerWithoutLookup(c) ==
    /\ AtLookupTest(c)
    /\ ~is_definition_query(call[c].query)
    /\ call' = [call EXCEPT ![c].pc = "answered", ![c].answer = "evidence"]
    /\ UNCHANGED <<llm, chunker, disk, memory>>

\* retriever.py:185-201, bookshelf_fetch.py:32-85  fetch_bookshelf_definition
\* returns None (no book, empty summary, no usable line) or a passage.
LookupOk(c, passage) ==
    /\ AtLookupTest(c)
    /\ is_definition_query(call[c].query)
    /\ call' = [call EXCEPT ![c].pc = "answered", ![c].lookups = @ + 1,
                            ![c].bookshelf = passage, ![c].answer = "evidence"]
    /\ UNCHANGED <<llm, chunker, disk, memory>>

\* bookshelf_fetch.py:32-33, 52-53  requests.get raises, or raise_for_status
\* does; neither fetch_bookshelf_definition nor answer_pubmed_question
\* catches it.
LookupFail(c) ==
    /\ AtLookupTest(c)
    /\ is_definition_query(call[c].query)
    /\ call' = [call EXCEPT ![c].pc = "raised", ![c].lookups = @ + 1,
                            ![c].err = "HTTPError"]
    /\ UNCHANGED <<llm, chunker, disk, memory>>

\* The steps of answer_pubmed_question around its retrieve call.
StepAnswer(c) ==
    \/ \E q \in Questions, k \in TopKs : AnswerStart(c, q, k)
    \/ AnswerWithoutLookup(c)
    \/ \E passage \in {"None", "passage"} : LookupOk(c, passage)
    \/ LookupFail(c)

(***************************************************************************)
(* The process stops                                                       *)
(***************************************************************************)
Forget ==
    /\ loaded' = {}
    /\ loadErr' = [i \in Insts |-> "none"]
    /\ index' = [i \in Insts |-> <<>>]
    /\ chunks' = [i \in Insts |-> <<>>]
    /\ call' = [c \in Callers |-> IdleCall]
    /\ fresh' = {}

\* The process stops with nothing of a pending buffer on disk.
Crash ==
    /\ loaded # {}
    /\ Forget
    /\ UNCHANGED <<disk, chunker, llm>>

\* The process stops while the buffer of the record file is being written
\* out: the k first records of the buffer are on disk, and with `torn` the
\* first bytes of the next one.
CrashDuringFlush(c, k, torn) ==
    /\ call[c].pc = "append"
    /\ k \in 0..call[c].written
    /\ torn => k < call[c].written
    /\ k > 0 \/ torn
    /\ LET whole == AppendLines(chunksFile, Take(call[c].newRecords, k))
       IN  chunksFile' =
             IF torn /\ ~(whole # <<>> /\ whole[Len(whole)].kind = "torn")
             THEN Append(whole, TornLine(call[c].newRecords[k + 1]))
             ELSE whole
    /\ pristine' = FALSE
    /\ Forget
    /\ UNCHANGED <<llm, chunker, files, idxFile, built>>

(***************************************************************************)
(* chunk_text                                                              *)
(***************************************************************************)
\* The cleaned texts chunk_text is called with.
CleanTexts == {s \in Strings(MaxChars) : IsClean(s)}

\* A call chunk_text(text, max_tokens) at its entry.
ChunkerAt(text, max_tokens) ==
    [pc |-> "start", text |-> text, max_tokens |-> max_tokens,
     sentences |-> <<>>, chunk |-> <<>>, chunks |-> <<>>]

\* pubmed_fetch.py:59-61  the split, chunks = [], chunk = "".
ChunkTextSplit ==
    /\ chunker.pc = "start"
    /\ chunker' = [chunker EXCEPT !.pc = "loop",
                                  !.sentences = SplitSentences(chunker.text)]
    /\ UNCHANGED <<engine, llm>>

\* pubmed_fetch.py:62-67  one turn of the loop, for the next sentence.
ChunkTextLoop ==
    /\ chunker.pc = "loop"
    /\ chunker.sentences # <<>>
    /\ LET sentence == Head(chunker.sentences)
       IN  chunker' =
             IF Fits(chunker.chunk, sentence, chunker.max_tokens)
             THEN [chunker EXCEPT !.sentences = Tail(@),
                                  !.chunk = @ \o sentence \o <<" ">>]
             ELSE [chunker EXCEPT !.sentences = Tail(@),
                                  !.chunks = Append(@, Strip(chunker.chunk)),
                                  !.chunk = sentence \o <<" ">>]
    /\ UNCHANGED <<engine, llm>>

\* pubmed_fetch.py:68-70  the last chunk, and the return.
ChunkTextEnd ==
    /\ chunker.pc = "loop"
    /\ chunker.sentences = <<>>
    /\ chunker' =
          IF chunker.chunk # <<>>
          THEN [chunker EXCEPT !.pc = "done",
                               !.chunks = Append(@, Strip(chunker.chunk))]
          ELSE [chunker EXCEPT !.pc = "done"]
    /\ UNCHANGED <<engine, llm>>

\* retriever.py:110-114  the records made of the chunks of one document.
RecordsOfChunks(pmid, chs) == [j \in 1..Len(chs) |-> RefreshRecord(pmid, chs[j])]

(***************************************************************************)
(* Specifications                                                          *)
(***************************************************************************)
\* The steps of a retrieve() call in which nothing fails.
StepOk(c) ==
    \/ \E q \in Queries, k \in TopKs : RetrieveStart(c, 1, q, k)
    \/ FetchIdsOk(c)
    \/ FetchArticlesOk(c)
    \/ IndexAdd(c)
    \/ WriteIndexOk(c)
    \/ OpenChunksOk(c)
    \/ AppendRecord(c)
    \/ CloseChunksOk(c)

\* The steps in which a network call, a file operation or the process fails.
StepFail(c) ==
    \/ FetchIdsFail(c)
    \/ FetchArticleFail(c)
    \/ WriteIndexFail(c)
    \/ OpenChunksFail(c)
    \/ CloseChunksFail(c)
    \/ \E k \in 0..MaxResults, torn \in BOOLEAN : CrashDuringFlush(c, k, torn)

\* One engine, one caller: the single-threaded operation of spec section 5.
Next ==
    \/ \E t \in BuildTerms, failed \in SUBSET {"p1", "p2"} : Build(t, failed)
    \/ Load(1)
    \/ Crash
    \/ StepOk(1)
    \/ StepFail(1)

Spec == Init /\ [][Next]_vars

\* One engine, two callers whose retrieve() calls interleave; no call and no
\* file operation fails.
NextConc ==
    \/ \E t \in BuildTerms : Build(t, {})
    \/ Load(1)
    \/ \E c \in Callers : StepOk(c)

SpecConc == Init /\ [][NextConc]_vars

\* One engine, one caller that calls retrieve or answer_pubmed_question; of
\* the calls to the outside only the definition lookup may fail.
NextAnswer ==
    \/ \E t \in BuildTerms, failed \in SUBSET {"p1", "p2"} : Build(t, failed)
    \/ Load(1)
    \/ StepOk(1)
    \/ StepAnswer(1)

SpecAnswer == Init /\ [][NextAnswer]_vars

\* Two engines on one data directory, the module-level _retriever and the
\* one of the text page, and one caller: the calls run one at a time,
\* through either engine, and nothing fails.
NextTwo ==
    \/ \E t \in BuildTerms : Build(t, {})
    \/ \E i \in Insts : Load(i)
    \/ StepOk(1)
    \/ \E q \in Queries, k \in TopKs : RetrieveStart(1, 2, q, k)

SpecTwo == Init /\ [][NextTwo]_vars

\* chunk_text on every cleaned text of the bounds, with every budget.
InitChunk ==
    /\ files = {}
    /\ idxFile = <<>>
    /\ chunksFile = <<>>
    /\ loaded = {}
    /\ loadErr = [i \in Insts |-> "none"]
    /\ index = [i \in Insts |-> <<>>]
    /\ chunks = [i \in Insts |-> <<>>]
    /\ call = [c \in Callers |-> IdleCall]
    /\ fresh = {}
    /\ built = -1
    /\ pristine = TRUE
    /\ NoConversation
    /\ \E text \in CleanTexts, max_tokens \in 1..MaxBudget :
          chunker = ChunkerAt(text, max_tokens)

NextChunk ==
    \/ ChunkTextSplit
    \/ ChunkTextLoop
    \/ ChunkTextEnd

SpecChunk == InitChunk /\ [][NextChunk]_vars

(***************************************************************************)
(* Conversation memory                                                     *)
(***************************************************************************)
\* llama_client.py:31
MAX_TURNS == 4

\* The turns the model lets the sessions append in all.
MaxCalls == 6

\* The questions put to the answer functions.
Asked == {Q1, Q2, Q4}

\* The functions that keep the conversation memory.
AnswerFunctions == {"generate_text_rag_answer", "generate_fusion_answer"}

\* patterns.py:4-61  patterns of the emergency, dosage, surgery and
\* sensitive-case lists.
BlockingPatterns == {"seizure", "dose of", "surgery risk", "pregnant"}

\* guards.py:26-28, 81-113  safety_input_filter returns a message when a
\* pattern occurs in the lower-cased text, None otherwise.
safety_input_filter(user_text) ==
    IF \E j \in DOMAIN Phrases(user_text) :
           Lower(Phrases(user_text)[j]) \in BlockingPatterns
    THEN "blocked"
    ELSE "None"

\* llama_client.py:36  the string stored for a turn.
Turn(user_q, assistant_a) == <<"User: ", user_q, "Assistant: ", assistant_a>>

\* A faulty variant of Evicted: the newest turn is removed.
EvictedNewest(history) == SubSeq(history, 1, Len(history) - 1)

\* llama_client.py:38  conversation_history.pop(0)
Evicted(history) == Tail(history)

\* The sessions between the start of a call and its append.
Answering == {s \in Sessions : session[s].pc \in {"generate", "append"}}

\* llama_client.py:75-91, 175-183  generate_text_rag_answer or
\* generate_fusion_answer is called; a question the safety filter blocks
\* returns the filter's message at once.
AnswerCall(s, fn, q) ==
    /\ session[s].pc = "idle"
    /\ Len(turns) + Cardinality(Answering) < MaxCalls
    /\ session' = [session EXCEPT ![s] =
          IF safety_input_filter(q) # "None"
          THEN [IdleSession EXCEPT !.out = "blocked"]
          ELSE [IdleSession EXCEPT !.fn = fn, !.question = q,
                                   !.pc = "generate"]]
    /\ UNCHANGED <<engine, chunker, conversation_history, turns>>

\* What sanitize_output makes of the text of the language model.
Replies == {"reply"}

\* llama_client.py:128-129, 194-195  _generate returns, sanitize_output
\* makes the answer.
GenerateOk(s, a) ==
    /\ session[s].pc = "generate"
    /\ session' = [session EXCEPT ![s].pc = "append", ![s].answer = a]
    /\ UNCHANGED <<engine, chunker, conversation_history, turns>>

\* llama_client.py:65-66  requests.post or raise_for_status raises; the call
\* leaves without reaching _append_history.
GenerateFail(s) ==
    /\ session[s].pc = "generate"
    /\ session' = [session EXCEPT ![s] = [IdleSession EXCEPT !.out = "raised"]]
    /\ UNCHANGED <<engine, chunker, conversation_history, turns>>

\* llama_client.py:36  conversation_history.append(...)
AppendTurn(s) ==
    /\ session[s].pc = "append"
    /\ LET t == Turn(session[s].question, session[s].answer)
       IN  /\ conversation_history' = Append(conversation_history, t)
           /\ turns' = Append(turns, t)
    /\ session' = [session EXCEPT ![s].pc = "test"]
    /\ UNCHANGED <<engine, chunker>>

\* llama_client.py:37  `if len(conversation_history) > MAX_TURNS:`; when
\* false the call returns the answer.
TestLength(s) ==
    /\ session[s].pc = "test"
    /\ session' = [session EXCEPT ![s] =
          IF Len(conversation_history) > MAX_TURNS
          THEN [@ EXCEPT !.pc = "pop"]
          ELSE [IdleSession EXCEPT !.out = "answered"]]
    /\ UNCHANGED <<engine, chunker, conversation_history, turns>>

\* llama_client.py:38  the oldest turn is removed, the call returns.
PopOldest(s) ==
    /\ session[s].pc = "pop"
    /\ conversation_history' = Evicted(conversation_history)
    /\ session' = [session EXCEPT ![s] = [IdleSession EXCEPT !.out = "answered"]]
    /\ UNCHANGED <<engine, chunker, turns>>

\* The sessions call the answer functions, one call per session at a time;
\* the steps of two calls interleave.
NextHistory ==
    \E s \in Sessions :
        \/ \E fn \in AnswerFunctions, q \in Asked : AnswerCall(s, fn, q)
        \/ \E a \in Replies : GenerateOk(s, a)
        \/ GenerateFail(s)
        \/ AppendTurn(s)
        \/ TestLength(s)
        \/ PopOldest(s)

SpecHistory == Init /\ [][NextHistory]_vars

(***************************************************************************)
(* Properties                                                              *)
(***************************************************************************)
\* Store position p of instance i holds the record whose text was embedded
\* into vector p.
Paired(i, p) ==
    /\ p <= Len(index[i])
    /\ index[i][p] = Embed(chunks[i][p].text)

\* Every store position is paired.
PairedPrefix(i) == \A p \in 1..Len(chunks[i]) : Paired(i, p)

\* As many vectors as records, and every position paired.
Aligned(i) == Len(index[i]) = Len(chunks[i]) /\ PairedPrefix(i)

\* A call that returned normally after appending a non-empty batch.
Appended(c) == call[c].pc = "returned" /\ call[c].newRecords # <<>>

\* C1: after a build from N >= 1 chunks, and after every later append that
\* returned normally, the index holds as many vectors as the store holds
\* records and record i is the one embedded into vector i.
C1_AlignedAfterBuildAndAppend ==
    built > 0 =>
        /\ \A i \in fresh : pristine => Aligned(i)
        /\ \A c \in Callers : Appended(c) => Aligned(call[c].inst)

\* The persisted pair is in matching order: every line of the record file
\* that holds a whole record stands at the position of its vector.
DiskInMatchingOrder ==
    \A p \in 1..Len(chunksFile) :
        chunksFile[p].kind = "rec" =>
            /\ p <= Len(idxFile)
            /\ idxFile[p] = Embed(chunksFile[p].rec.text)

\* C2: a load from a pair in matching order, written by a build of N >= 1
\* chunks and any number of appends, restores matching order, also when a
\* line of the record file fails to parse and is skipped: the record at
\* every store position is the record of the vector at that position.
C2_ReloadRestoresOrder ==
    built > 0 => \A i \in fresh : DiskInMatchingOrder => PairedPrefix(i)

\* C3: a load finds as many vectors in the index file as records in the
\* record file, also after an append that was cut between its two writes.
C3_PartialAppendDurableInNeither ==
    built > 0 => \A i \in fresh : Len(idxFile) = Len(ParseLines(chunksFile))

\* The bytes of record r are on line l.
LineHolds(l, r) == l.kind \in {"rec", "merged"} /\ l.rec = r

\* C4: when an append of a non-empty batch has returned, the last vectors of
\* the index are the embeddings of the batch in batch order, the last
\* records of the store are the batch in the same order, and both files
\* hold the batch at their end.
C4_AppendPersistsBatchInOrder ==
    \A c \in Callers : Appended(c) =>
        LET i == call[c].inst
            recs == call[c].newRecords
            m == Len(recs)
            vecs == [j \in 1..m |-> Embed(recs[j].text)]
        IN  /\ Len(index[i]) >= m /\ LastN(index[i], m) = vecs
            /\ Len(chunks[i]) >= m /\ LastN(chunks[i], m) = recs
            /\ IDX \in files
            /\ Len(idxFile) >= m /\ LastN(idxFile, m) = vecs
            /\ CHK \in files
            /\ Len(chunksFile) >= m
            /\ \A j \in 1..m : LineHolds(LastN(chunksFile, m)[j], recs[j])

\* C4 witness: an append of three records has returned.
C4_Witness ==
    \E c \in Callers : Appended(c) /\ Len(call[c].newRecords) = 3

\* C5: a load with one of the two files absent fails with IndexNotReady and
\* leaves an engine whose is_ready() is false.
C5_MissingFileIsIndexNotReady ==
    \A i \in Insts : loadErr[i] # "none" =>
        loadErr[i] = "IndexNotReady" /\ ~IsReady(i)

\* A caller inside the append steps of _fetch_and_store (lines 124-130).
InAppend(c) == call[c].pc \in {"write_index", "open_chunks", "append"}

\* C6: no lock surrounds the append steps: while one caller is between
\* index.add and the end of its record writes, another caller of the same
\* engine can run its own index.add.
C6_NoLockAroundAppend ==
    \A c, d \in Callers :
        (c # d /\ call[c].inst = call[d].inst /\ InAppend(c)
            /\ call[d].pc = "add") => ENABLED IndexAdd(d)

\* C6 witness: two interleaved appends have both returned, index and store
\* have equal length, and some store position is not paired with its vector.
C6_Witness ==
    /\ \A c \in Callers : Appended(c) /\ call[c].inst = 1
    /\ Len(index[1]) = Len(chunks[1])
    /\ \E p \in 1..Len(chunks[1]) : ~Paired(1, p)

\* C7: in one retrieve call the refresh runs at most once, and the document
\* search is called at most once.
C7_RefreshAtMostOnce ==
    \A c \in Callers : call[c].refreshes <= 1 /\ Len(call[c].fetchLog) <= 1

\* The mean of (1 - distance) over a non-empty result set is below 0.35.
MeanBelowThreshold(results) ==
    SumSeq([j \in 1..Len(results) |-> (100 - results[j].dist) - 35]) < 0

\* C7 witness: a call has returned after one refresh although its second
\* search is non-empty and still below the threshold.
C7_Witness ==
    \E c \in Callers :
        /\ call[c].pc = "returned"
        /\ call[c].refreshes = 1
        /\ call[c].newRecords # <<>>
        /\ call[c].results # <<>>
        /\ MeanBelowThreshold(call[c].results)

\* C8: a call refreshes exactly when its first search is empty or has a
\* mean of (1 - distance) below 0.35; otherwise no fetch is made.
C8_RefreshIffWeak ==
    \A c \in Callers : call[c].pc # "idle" =>
        LET weak == call[c].results0 = <<>>
                      \/ MeanBelowThreshold(call[c].results0)
        IN  /\ (call[c].refreshes >= 1) <=> weak
            /\ ~weak => call[c].fetchLog = <<>> /\ call[c].pc = "returned"

\* C8 witness: a call whose first search has a mean similarity of exactly
\* 0.35 has returned without a refresh.
C8_Witness ==
    \E c \in Callers :
        /\ call[c].pc = "returned"
        /\ call[c].refreshes = 0
        /\ call[c].results0 # <<>>
        /\ SumSeq([j \in 1..Len(call[c].results0) |->
                      100 - call[c].results0[j].dist])
             = 35 * Len(call[c].results0)

\* C9: the document search of a refresh is called with the query text as
\* given and a limit of 3, at most 3 documents are fetched, and no buckets
\* are returned before the call.
C9_FetchUsesRawQueryAndLimit ==
    \A c \in Callers :
        /\ \A j \in DOMAIN call[c].fetchLog :
              call[c].fetchLog[j] = [term |-> call[c].query, max |-> 3]
        /\ Len(call[c].pmids) <= 3
        /\ (call[c].refreshes >= 1 /\ call[c].fetchLog = <<>>) =>
              call[c].pc = "fetch_ids" /\ call[c].buckets = NoBuckets
        /\ (call[c].refreshes >= 1 /\ call[c].pc = "returned") =>
              Len(call[c].fetchLog) >= 1

\* C9 witness: a call with a query in mixed case has returned after a
\* refresh that fetched 3 of the 4 documents the search holds.
C9_Witness ==
    \E c \in Callers :
        /\ call[c].pc = "returned"
        /\ call[c].refreshes = 1
        /\ call[c].query = "What is Asthma?"
        /\ call[c].fetchLog = <<[term |-> "What is Asthma?", max |-> 3]>>
        /\ Len(call[c].pmids) = 3
        /\ Len(IdsFor(call[c].query)) = 4

\* C10: a network failure during the refresh does not leave retrieve: with
\* pre-refresh results the call returns the buckets of those results.
C10_NetworkFailureDegrades ==
    \A c \in Callers :
        (call[c].err = "ConnectionError" /\ call[c].results0 # <<>>) =>
            /\ call[c].pc = "returned"
            /\ call[c].buckets = Buckets(call[c].results0)

\* C11: when the fetch of one document fails during a refresh, the document
\* is skipped and the refresh goes on: the call returns, and the chunks of
\* the other documents of the refresh are the last vectors of the index and
\* the last records of the store.
C11_FailedFetchIsSkipped ==
    \A c \in Callers : call[c].failedDoc # "" =>
        LET i == call[c].inst
            kept == SelectSeq(call[c].pmids, LAMBDA p : p # call[c].failedDoc)
            recs == BatchFor(kept)
            m == Len(recs)
        IN  /\ call[c].pc = "returned"
            /\ Len(index[i]) >= m
            /\ LastN(index[i], m) = [j \in 1..m |-> Embed(recs[j].text)]
            /\ Len(chunks[i]) >= m
            /\ LastN(chunks[i], m) = recs

\* The result lists a call has got from _search so far.
SearchesOf(c) == {call[c].results0, call[c].results}

\* C12: a search returns at most top_k results, in order of non-decreasing
\* distance, and every returned record is a record of the store.
C12_SearchBoundedOrderedFromStore ==
    \A c \in Callers : call[c].pc # "idle" =>
        \A res \in SearchesOf(c) :
            /\ Len(res) <= call[c].topk
            /\ \A j \in 1..(Len(res) - 1) : res[j].dist <= res[j + 1].dist
            /\ \A j \in 1..Len(res) :
                  \E p \in 1..Len(chunks[call[c].inst]) :
                      chunks[call[c].inst][p] = res[j].rec

\* C12 witness: a call with top_k = 2 on an index of more than 2 vectors has
\* returned 2 results at different distances, and the nearest vector is not
\* at the first position of the index.
C12_Witness ==
    \E c \in Callers :
        /\ call[c].pc = "returned"
        /\ call[c].topk = 2
        /\ Len(index[call[c].inst]) > 2
        /\ Len(call[c].results) = 2
        /\ call[c].results[1].dist < call[c].results[2].dist
        /\ Dist(call[c].query, index[call[c].inst][1]) > call[c].results[1].dist

\* The records of a sequence, as a set.
Range(s) == {s[j] : j \in 1..Len(s)}

\* The results of a returned call that fall into category b, in rank order.
Candidates(c, b) ==
    SelectSeq([j \in 1..Len(call[c].results) |-> call[c].results[j].rec],
              LAMBDA r : Category(r) = b)

\* C13: every bucket a call returns holds at most 2 records, and no record
\* is in two of the three buckets.
C13_BucketsCappedAndDisjoint ==
    \A c \in Callers : call[c].pc = "returned" =>
        /\ \A b \in BucketNames : Len(call[c].buckets[b]) <= 2
        /\ \A a, b \in BucketNames :
              a # b => Range(call[c].buckets[a]) \cap Range(call[c].buckets[b]) = {}

\* C13 witness: a call has returned a full bucket out of three records of
\* that category, and a record carrying both a definition and a mechanism
\* marker in definition_support.
C13_Witness ==
    \E c \in Callers :
        /\ call[c].pc = "returned"
        /\ \E b \in BucketNames :
              Len(Candidates(c, b)) >= 3 /\ Len(call[c].buckets[b]) = 2
        /\ \E r \in Range(call[c].buckets.definition_support) :
              HasMarker(r.text, MechanismMarkers)

\* The three chunks of the example of spec section 9, as search results in
\* the order of the example.
ExampleResults ==
    <<[rec |-> [text |-> T_DEF], dist |-> 10],
      [rec |-> [text |-> T_MECH], dist |-> 20],
      [rec |-> [text |-> T_RES], dist |-> 30]>>

\* Some phrase of the text, lower-cased, is one of the definition markers.
IsDefinitional(r) ==
    \E j \in 1..Len(r.text) : Lower(r.text[j]) \in {"is a", "refers to", "defined as"}

\* Some phrase of the text, lower-cased, is one of the mechanism markers.
IsMechanistic(r) ==
    \E j \in 1..Len(r.text) :
        Lower(r.text[j]) \in {"pathophysiology", "mechanism", "airway inflammation"}

\* C14: categorization is first-match by priority on the lower-cased text.
\* The best-ranked result with a definition marker heads definition_support,
\* with or without a mechanism marker; the best-ranked result with a
\* mechanism marker and no definition marker heads mechanism_support; the
\* best-ranked result with neither heads research_support; no bucket holds a
\* record of another class.  The example chunks of the spec give one bucket
\* each.
C14_FirstMatchByPriority ==
    /\ \A c \in Callers : call[c].pc = "returned" =>
          LET res == call[c].results
              bk == call[c].buckets
              class(r) == IF IsDefinitional(r) THEN "definition_support"
                          ELSE IF IsMechanistic(r) THEN "mechanism_support"
                          ELSE "research_support"
          IN  /\ \A b \in BucketNames : \A r \in Range(bk[b]) : class(r) = b
              /\ \A j \in 1..Len(res) :
                    (\A m \in 1..(j - 1) : class(res[m].rec) # class(res[j].rec))
                        => /\ bk[class(res[j].rec)] # <<>>
                           /\ bk[class(res[j].rec)][1] = res[j].rec
    /\ Buckets(ExampleResults) =
          [definition_support |-> <<[text |-> T_DEF]>>,
           mechanism_support |-> <<[text |-> T_MECH]>>,
           research_support |-> <<[text |-> T_RES]>>]

\* C14 witness: a call has returned definition_support with a record that
\* has both kinds of marker and with a record whose marker is in upper case
\* in the text, and a non-empty mechanism_support.
C14_Witness ==
    \E c \in Callers :
        /\ call[c].pc = "returned"
        /\ \E r \in Range(call[c].buckets.definition_support) :
              IsDefinitional(r) /\ IsMechanistic(r)
        /\ \E r \in Range(call[c].buckets.definition_support) :
              \E j \in 1..Len(r.text) : r.text[j] = "Refers To"
        /\ call[c].buckets.mechanism_support # <<>>

\* The ranks of the results of a call that fall into category b.
RanksOf(c, b) ==
    {j \in 1..Len(call[c].results) : Category(call[c].results[j].rec) = b}

\* C15: a bucket is the first two, or fewer, of the results of its category
\* in rank order: its m-th record is the result of the category that has
\* exactly m - 1 results of the category ranked before it.
C15_BucketIsRankPrefix ==
    \A c \in Callers : call[c].pc = "returned" =>
        \A b \in BucketNames :
            LET P == RanksOf(c, b)
                bucket == call[c].buckets[b]
            IN  /\ Len(bucket) = Min(Cardinality(P), 2)
                /\ \A m \in 1..Len(bucket) :
                      \E j \in P :
                          /\ Cardinality({x \in P : x < j}) = m - 1
                          /\ bucket[m] = call[c].results[j].rec

\* C15 witness: a call has returned a bucket of two records whose second
\* record is ranked behind the cap, with a third record of the category
\* ranked behind it and left out.
C15_Witness ==
    \E c \in Callers :
        /\ call[c].pc = "returned"
        /\ \E b \in BucketNames :
              \E j, l \in RanksOf(c, b) :
                  /\ 2 < j /\ j < l
                  /\ Len(call[c].buckets[b]) = 2
                  /\ call[c].buckets[b][2] = call[c].results[j].rec
                  /\ call[c].results[l].rec \notin Range(call[c].buckets[b])

\* A step of the call of caller c, not a stop of the process.
StepOfCall(c) == call'[c] # call[c] /\ call'[c].inst = call[c].inst

\* C16: a refresh that yields no new chunk is a no-op.  The step in which
\* the document search returns no identifier, and the step in which the
\* empty batch is found, leave the in-memory index, the in-memory store and
\* both files as they are; the second raises nothing and returns from
\* retrieve with the results of the first search and their buckets.
C16_EmptyRefreshIsNoOp ==
    [][\A c \in Callers :
          /\ (/\ call[c].pc = "fetch_ids"
              /\ call'[c].pc = "fetch_articles"
              /\ call'[c].pmids = <<>>) => UNCHANGED <<disk, memory>>
          /\ (/\ call[c].pc = "fetch_articles"
              /\ BatchFor(call[c].pmids) = <<>>
              /\ StepOfCall(c)) =>
                 /\ UNCHANGED <<disk, memory>>
                 /\ call'[c].pc = "returned"
                 /\ call'[c].err = "none"
                 /\ call'[c].results = call[c].results0
                 /\ call'[c].buckets = Buckets(call[c].results0)]_vars

\* C16 witness: a call whose first search was weak but not empty has
\* returned after a refresh that found no document, with non-empty buckets.
C16_Witness ==
    \E c \in Callers :
        /\ call[c].pc = "returned"
        /\ call[c].refreshes = 1
        /\ Len(call[c].fetchLog) = 1
        /\ call[c].pmids = <<>>
        /\ call[c].newRecords = <<>>
        /\ call[c].results0 # <<>>
        /\ call[c].buckets # NoBuckets

\* C17: a search on an index without vectors returns the empty list,
\* whatever the store holds, and a call whose results are still empty after
\* its refresh returns three empty buckets.
C17_EmptySearchGivesEmptyBuckets ==
    /\ \A i \in Insts : \A q \in Queries : \A k \in TopKs :
          SearchResults(<<>>, chunks[i], q, k) = <<>>
    /\ \A c \in Callers :
          (call[c].pc = "returned" /\ call[c].refreshes = 1
              /\ call[c].results = <<>>) =>
                  \A b \in BucketNames : call[c].buckets[b] = <<>>

\* C17 witness: on an engine with a non-empty store, a call whose first
\* search gave no result has returned after its refresh, again with no
\* result.
C17_Witness ==
    \E c \in Callers :
          /\ call[c].pc = "returned"
          /\ chunks[call[c].inst] # <<>>
          /\ call[c].refreshes = 1
          /\ call[c].results0 = <<>>
          /\ call[c].results = <<>>
          /\ call[c].buckets = NoBuckets

\* chunk_text has returned.
ChunkTextDone == chunker.pc = "done"

\* C18: chunking never splits, drops, duplicates or reorders a sentence:
\* the chunks joined in order with single spaces have the sentences of the
\* input, in the order of the input, and every sentence of the input is a
\* whole sentence of some chunk.
C18_ChunksKeepSentences ==
    ChunkTextDone =>
        /\ SplitSentences(Join(chunker.chunks, <<" ">>)) = SplitSentences(chunker.text)
        /\ \A s \in Range(SplitSentences(chunker.text)) :
              \E ch \in Range(chunker.chunks) : s \in Range(SplitSentences(ch))

\* C19: chunk_text emits no empty chunk: the empty text gives no chunk, no
\* chunk of any text is the empty string, and so no record made of the
\* chunks has an empty text.
C19_NoEmptyChunk ==
    ChunkTextDone =>
        /\ chunker.text = <<>> => chunker.chunks = <<>>
        /\ \A j \in 1..Len(chunker.chunks) : chunker.chunks[j] # <<>>
        /\ \A r \in Range(RecordsOfChunks("p1", chunker.chunks)) : r.text # <<>>

\* C20: a chunk has more than max_tokens words only if it is one sentence
\* that alone has more than max_tokens words; a chunk of two or more
\* sentences has at most max_tokens words.
C20_OverBudgetOnlySingleSentence ==
    ChunkTextDone =>
        \A ch \in Range(chunker.chunks) :
            /\ WordCount(ch) > chunker.max_tokens =>
                  /\ Len(SplitSentences(ch)) = 1
                  /\ ch \in Range(SplitSentences(chunker.text))
            /\ Len(SplitSentences(ch)) >= 2 => WordCount(ch) <= chunker.max_tokens

\* C20 witness: chunk_text has returned a chunk of two sentences that fills
\* the budget and a chunk of one sentence that is over the budget.
C20_Witness ==
    /\ ChunkTextDone
    /\ \E ch \in Range(chunker.chunks) :
          Len(SplitSentences(ch)) = 2 /\ WordCount(ch) = chunker.max_tokens
    /\ \E ch \in Range(chunker.chunks) :
          Len(SplitSentences(ch)) = 1 /\ WordCount(ch) > chunker.max_tokens

\* C21: after a build and any number of refreshes, every record of the
\* store carries a chunk index, and no two records of one document have the
\* same chunk index.
C21_ChunkIndexUniquePerSource ==
    built > 0 =>
        \A i \in loaded :
            /\ \A p \in 1..Len(chunks[i]) : "chunk_id" \in DOMAIN chunks[i][p]
            /\ \A p, r \in 1..Len(chunks[i]) :
                  (/\ p # r
                   /\ "chunk_id" \in DOMAIN chunks[i][p]
                   /\ "chunk_id" \in DOMAIN chunks[i][r]
                   /\ chunks[i][p].pmid = chunks[i][r].pmid) =>
                      chunks[i][p].chunk_id # chunks[i][r].chunk_id

\* Sequence a is the beginning of sequence b.
IsPrefix(a, b) == Len(a) <= Len(b) /\ SubSeq(b, 1, Len(a)) = a

\* C22: the index only grows.  In every step of a loaded engine that stays
\* loaded, the index and the store keep every vector and record they have,
\* at its position and unchanged, so neither of them gets shorter.
C22_IndexOnlyGrows ==
    [][\A i \in loaded \cap loaded' :
          /\ IsPrefix(index[i], index'[i])
          /\ IsPrefix(chunks[i], chunks'[i])]_vars

\* C22 witness: an append has returned on an engine that held the records
\* of the build before, and they are still its first records.
C22_Witness ==
    \E c \in Callers :
        /\ Appended(c)
        /\ built > 0
        /\ Len(chunks[call[c].inst]) = built + Len(call[c].newRecords)
        /\ Len(index[call[c].inst]) = built + Len(call[c].newRecords)
        /\ \A p \in 1..built : "chunk_id" \in DOMAIN chunks[call[c].inst][p]

\* C23: when the definition lookup fails or finds nothing for a definition
\* question, answer_pubmed_question raises nothing and returns the evidence
\* without a background passage.
C23_LookupFailureDegrades ==
    \A c \in Callers :
        (call[c].via = "answer" /\ call[c].lookups >= 1
            /\ (call[c].err = "HTTPError" \/ call[c].bookshelf = "None")) =>
                /\ call[c].pc = "answered"
                /\ call[c].err = "none"
                /\ call[c].answer = "evidence"
                /\ call[c].bookshelf = "None"

\* C24: a question is a definition question exactly when its lower-cased
\* text holds one of the five keywords; a call makes at most one lookup, a
\* call that has passed its retrieve with a definition question on a ready
\* engine has made exactly one, and a call with another question or on an
\* engine that is not ready makes none.
C24_LookupOncePerDefinitionQuery ==
    /\ is_definition_query(Q1) /\ ~is_definition_query(Q2) /\ is_definition_query(Q3)
    /\ \A q \in Questions :
          is_definition_query(q) <=>
              \E j \in 1..Len(Phrases(q)) :
                  Lower(Phrases(q)[j]) \in
                      {"what is", "define", "definition", "meaning of", "explain"}
    /\ \A c \in Callers :
          LET definitional ==
                  \E j \in 1..Len(Phrases(call[c].query)) :
                      Lower(Phrases(call[c].query)[j]) \in
                          {"what is", "define", "definition", "meaning of", "explain"}
              passed == call[c].pc = "answered" \/ call[c].err = "HTTPError"
          IN  /\ call[c].lookups <= 1
              /\ call[c].lookups = 1 =>
                    definitional /\ call[c].answer # "not_ready"
              /\ (call[c].via = "answer" /\ passed /\ definitional
                     /\ call[c].answer # "not_ready") => call[c].lookups = 1
              /\ call[c].answer = "not_ready" => call[c].lookups = 0
              /\ call[c].via = "retrieve" => call[c].lookups = 0

\* C24 witness: a call with a keyword in upper case has
\* returned after one lookup.
C24_Witness ==
    \E c \in Callers :
        /\ call[c].pc = "answered"
        /\ call[c].query = Q3
        /\ call[c].lookups = 1
        /\ call[c].answer = "evidence"

\* C25: after any run of the build step, also one over an existing data
\* directory that produces no chunk, the index file holds as many vectors
\* as the record file holds records.
C25_BuildWritesPair ==
    (built >= 0 /\ pristine) => Len(idxFile) = Len(ParseLines(chunksFile))

\* C26: with two engines loaded from one directory and refreshes run one
\* at a time through either of them, whenever no call is in progress the
\* index file holds as many vectors as the record file holds records, and
\* vector i of the file is the vector of record i of the file.
C26_TwoEnginesKeepDiskPaired ==
    (built > 0 /\ \A c \in Callers : Outside(c)) =>
        LET recs == ParseLines(chunksFile)
        IN  /\ Len(idxFile) = Len(recs)
            /\ \A p \in 1..Len(recs) :
                  p <= Len(idxFile) => idxFile[p] = Embed(recs[p].text)

\* C27: when _fetch_and_store raises after index.add, because the write of
\* the index file or of the record file fails, the engine's index and store
\* have equal length.
C27_FailedAppendKeepsMemoryPaired ==
    \A c \in Callers :
        (call[c].pc = "raised" /\ call[c].err = "OSError"
            /\ call[c].ixLen0 = call[c].chLen0) =>
                Len(index[call[c].inst]) = Len(chunks[call[c].inst])

\* The documents that have a record in the record file.
DocsOnDisk == {ParseLines(chunksFile)[j].pmid : j \in 1..Len(ParseLines(chunksFile))}

\* C28: a build skips a document whose fetch fails and goes on: after a
\* build the record file holds, in the order of the search, all chunks of
\* the documents that were fetched and nothing of the others, and the index
\* file holds the vectors of just these records, in the same order.
C28_BuildSkipsFailedFetch ==
    (built >= 0 /\ pristine) =>
        \E t \in BuildTerms :
            LET pmids == Take(IdsFor(t), BuildMaxResults)
                skipped == {pmids[j] : j \in 1..Len(pmids)} \ DocsOnDisk
                recs == ParseLines(chunksFile)
            IN  /\ recs = BuildRecords(pmids, skipped)
                /\ idxFile = [j \in 1..Len(recs) |-> Embed(recs[j].text)]

\* The records of the store of instance i that equal record r.
CopiesOf(i, r) == {p \in 1..Len(chunks[i]) : chunks[i][p] = r}

\* C29: a refresh appends every chunk of every fetched document whether or
\* not the store holds the document already, and nothing limits the size: a
\* call that returns after a refresh has grown the store and the index by
\* exactly the number of chunks fetched, and the last entries of the store
\* are these chunks; so k refreshes that fetch the same m chunks add k*m.
C29_RefreshAppendsWithoutDedup ==
    \A c \in Callers :
        (call[c].pc = "returned" /\ call[c].refreshes > 0) =>
            LET i == call[c].inst
                batch == BatchFor(call[c].pmids)
                m == call[c].refreshes * Len(batch)
            IN  /\ Len(chunks[i]) = call[c].chLen0 + m
                /\ Len(index[i]) = call[c].ixLen0 + m
                /\ SubSeq(chunks[i], Len(chunks[i]) - Len(batch) + 1,
                          Len(chunks[i])) = batch

\* A refresh returned whose chunks were all in the store before it, from an
\* earlier refresh: the store holds each of them twice.
C29_Witness ==
    \E c \in Callers :
        /\ call[c].pc = "returned" /\ call[c].refreshes > 0
        /\ call[c].newRecords # <<>>
        /\ \A j \in 1..Len(call[c].newRecords) :
              /\ Cardinality(CopiesOf(call[c].inst, call[c].newRecords[j])) = 2
              /\ \E p \in 1..call[c].chLen0 :
                    chunks[call[c].inst][p] = call[c].newRecords[j]

\* No session is inside an answer-generation call.
NoCallInProgress == \A s \in Sessions : session[s].pc = "idle"

\* C30: after any sequence of answer-generation calls the conversation
\* history holds at most MAX_TURNS turns, and they are the turns appended
\* last, in the order in which they were appended.
C30_HistoryBoundedMostRecent ==
    NoCallInProgress =>
        /\ Len(conversation_history) <= MAX_TURNS
        /\ Len(conversation_history) <= Len(turns)
        /\ conversation_history =
             SubSeq(turns, Len(turns) - Len(conversation_history) + 1, Len(turns))

\* More turns than MAX_TURNS were appended, the oldest of them differs from
\* the ones kept, and the calls are over.
C30_Witness ==
    /\ NoCallInProgress
    /\ Len(turns) > MAX_TURNS
    /\ Len(conversation_history) = MAX_TURNS
    /\ \A j \in 1..Len(conversation_history) : conversation_history[j] # turns[1]

=============================================================================
